---- MODULE Spec2Model ----
(***************************************************************************)
(* Model of the two Advent of Code '23 solvers of this repository:         *)
(*   d1.py  decode_line / sum_lines          (calibration decoder)         *)
(*   d2.py  DiceGroup, max_dice_group, parse_game_string, validate_game,   *)
(*          get_game_number, validate_games_file                           *)
(* A Python str is the sequence of its characters.                         *)
(***************************************************************************)
EXTENDS Integers, Sequences, FiniteSets

VARIABLES
    \* d1.decode_line: arguments, loop variables, control position, return value
    line, word_correction, i, first_num, last_num, pc, result,
    \* d1.sum_lines: the lines of the file, its flag, lines read, total, printed output, position
    file, sum_wc, li, total, printed, spc,
    \* d2.DiceGroup comparisons: the last pair compared and the value of each operator
    cmp,
    \* d2.validate_game: arguments, groups consumed, control position, return value
    game, bag, vi, vpc, vres,
    \* d2.max_dice_group: argument, groups consumed, the counts dict, position, return value
    groups, mi, counts, mpc, mres,
    \* d2.validate_games_file / total_power_games_file on one line of the file:
    \* the line, the game number and draws it was written from (from_format: it has the games
    \* file format), the bag, control position, game_number, the generator's segment list and
    \* whether it has started, the groups it has yielded, valid_game, the exception raised,
    \* the power of the line's minimal bag (game_number and line_power are <<>> until assigned,
    \* then <<n>>)
    game_string, written_number, written, from_format, gbag, gpc, game_number, started, segs,
    yielded, valid_game, gerr, line_power

d1vars == <<line, word_correction, i, first_num, last_num, pc, result>>
sumvars == <<file, sum_wc, li, total, printed, spc>>

ordvars == <<cmp>>
valvars == <<game, bag, vi, vpc, vres>>
maxvars == <<groups, mi, counts, mpc, mres>>
gamevars == <<game_string, written_number, written, from_format, gbag, gpc, game_number, started,
              segs, yielded, valid_game, gerr, line_power>>

d2vars == <<ordvars, valvars, maxvars, gamevars>>

vars == <<d1vars, sumvars, d2vars>>

(***************************************************************************)
(* Bounds                                                                  *)
(***************************************************************************)
MaxLen == 4
MaxLines == 2
MaxCount == 1
MaxGroups == 2
MaxDraws == 2

(***************************************************************************)
(* Python built-ins used by both files                                     *)
(***************************************************************************)
\* Python's None where decode_line and sum_lines use it (their ints are >= 0)
None == -1

Min2(a, b) == IF a < b THEN a ELSE b
Max2(a, b) == IF a > b THEN a ELSE b

\* a slice bound k normalised against a string of length n (negative counts from the end, clamped)
Norm(k, n) == IF k < 0 THEN Max2(n + k, 0) ELSE Min2(k, n)

\* s[a:b]
Slice(s, a, b) == SubSeq(s, Norm(a, Len(s)) + 1, Norm(b, Len(s)))

\* s[k] is defined (otherwise IndexError)
InRange(s, k) == (-Len(s) <= k) /\ (k < Len(s))

\* s[k], k possibly negative
Index(s, k) == IF k < 0 THEN s[Len(s) + k + 1] ELSE s[k + 1]

\* sub in s  (substring containment)
Contains(sub, s) == \E k \in 1..(Len(s) - Len(sub) + 1) : SubSeq(s, k, k + Len(sub) - 1) = sub

DigitChars == <<"0", "1", "2", "3", "4", "5", "6", "7", "8", "9">>

\* numbers = [str(number) for number in range(10)]
numbers == {DigitChars[d] : d \in 1..10}

\* int(c) for a one-character digit string
DigitVal(c) == (CHOOSE d \in 1..10 : DigitChars[d] = c) - 1

\* A character up to U+00FF is the one-character string; a character above U+00FF, which a
\* TLA+ string cannot hold, is the string "U+XXXX" of its code point.

\* the characters str.strip() removes (those str.isspace() is true of): \t, \n, \v, \f, \r,
\* U+001C..U+001F, space, U+0085, U+00A0 and the Unicode spaces above U+00FF
Whitespace ==
    {"\t", "\n", "", "\f", "\r", "", "", "", "", " ", "", " ", "U+1680", "U+2000",
     "U+2001", "U+2002", "U+2003", "U+2004", "U+2005", "U+2006", "U+2007", "U+2008", "U+2009",
     "U+200A", "U+2028", "U+2029", "U+202F", "U+205F", "U+3000"}

\* the characters int() skips at both ends of its argument: the same without U+001C..U+001F
IntSpace ==
    {"\t", "\n", "", "\f", "\r", " ", "", " ", "U+1680", "U+2000", "U+2001", "U+2002",
     "U+2003", "U+2004", "U+2005", "U+2006", "U+2007", "U+2008", "U+2009", "U+200A", "U+2028",
     "U+2029", "U+202F", "U+205F", "U+3000"}

\* the decimal digits int() accepts: the digits 0..9 of every script (Unicode category Nd)
Decimals ==
    << DigitChars,
       <<"U+0660", "U+0661", "U+0662", "U+0663", "U+0664", "U+0665", "U+0666", "U+0667", "U+0668", "U+0669">>,
       <<"U+06F0", "U+06F1", "U+06F2", "U+06F3", "U+06F4", "U+06F5", "U+06F6", "U+06F7", "U+06F8", "U+06F9">>,
       <<"U+07C0", "U+07C1", "U+07C2", "U+07C3", "U+07C4", "U+07C5", "U+07C6", "U+07C7", "U+07C8", "U+07C9">>,
       <<"U+0966", "U+0967", "U+0968", "U+0969", "U+096A", "U+096B", "U+096C", "U+096D", "U+096E", "U+096F">>,
       <<"U+09E6", "U+09E7", "U+09E8", "U+09E9", "U+09EA", "U+09EB", "U+09EC", "U+09ED", "U+09EE", "U+09EF">>,
       <<"U+0A66", "U+0A67", "U+0A68", "U+0A69", "U+0A6A", "U+0A6B", "U+0A6C", "U+0A6D", "U+0A6E", "U+0A6F">>,
       <<"U+0AE6", "U+0AE7", "U+0AE8", "U+0AE9", "U+0AEA", "U+0AEB", "U+0AEC", "U+0AED", "U+0AEE", "U+0AEF">>,
       <<"U+0B66", "U+0B67", "U+0B68", "U+0B69", "U+0B6A", "U+0B6B", "U+0B6C", "U+0B6D", "U+0B6E", "U+0B6F">>,
       <<"U+0BE6", "U+0BE7", "U+0BE8", "U+0BE9", "U+0BEA", "U+0BEB", "U+0BEC", "U+0BED", "U+0BEE", "U+0BEF">>,
       <<"U+0C66", "U+0C67", "U+0C68", "U+0C69", "U+0C6A", "U+0C6B", "U+0C6C", "U+0C6D", "U+0C6E", "U+0C6F">>,
       <<"U+0CE6", "U+0CE7", "U+0CE8", "U+0CE9", "U+0CEA", "U+0CEB", "U+0CEC", "U+0CED", "U+0CEE", "U+0CEF">>,
       <<"U+0D66", "U+0D67", "U+0D68", "U+0D69", "U+0D6A", "U+0D6B", "U+0D6C", "U+0D6D", "U+0D6E", "U+0D6F">>,
       <<"U+0DE6", "U+0DE7", "U+0DE8", "U+0DE9", "U+0DEA", "U+0DEB", "U+0DEC", "U+0DED", "U+0DEE", "U+0DEF">>,
       <<"U+0E50", "U+0E51", "U+0E52", "U+0E53", "U+0E54", "U+0E55", "U+0E56", "U+0E57", "U+0E58", "U+0E59">>,
       <<"U+0ED0", "U+0ED1", "U+0ED2", "U+0ED3", "U+0ED4", "U+0ED5", "U+0ED6", "U+0ED7", "U+0ED8", "U+0ED9">>,
       <<"U+0F20", "U+0F21", "U+0F22", "U+0F23", "U+0F24", "U+0F25", "U+0F26", "U+0F27", "U+0F28", "U+0F29">>,
       <<"U+1040", "U+1041", "U+1042", "U+1043", "U+1044", "U+1045", "U+1046", "U+1047", "U+1048", "U+1049">>,
       <<"U+1090", "U+1091", "U+1092", "U+1093", "U+1094", "U+1095", "U+1096", "U+1097", "U+1098", "U+1099">>,
       <<"U+17E0", "U+17E1", "U+17E2", "U+17E3", "U+17E4", "U+17E5", "U+17E6", "U+17E7", "U+17E8", "U+17E9">>,
       <<"U+1810", "U+1811", "U+1812", "U+1813", "U+1814", "U+1815", "U+1816", "U+1817", "U+1818", "U+1819">>,
       <<"U+1946", "U+1947", "U+1948", "U+1949", "U+194A", "U+194B", "U+194C", "U+194D", "U+194E", "U+194F">>,
       <<"U+19D0", "U+19D1", "U+19D2", "U+19D3", "U+19D4", "U+19D5", "U+19D6", "U+19D7", "U+19D8", "U+19D9">>,
       <<"U+1A80", "U+1A81", "U+1A82", "U+1A83", "U+1A84", "U+1A85", "U+1A86", "U+1A87", "U+1A88", "U+1A89">>,
       <<"U+1A90", "U+1A91", "U+1A92", "U+1A93", "U+1A94", "U+1A95", "U+1A96", "U+1A97", "U+1A98", "U+1A99">>,
       <<"U+1B50", "U+1B51", "U+1B52", "U+1B53", "U+1B54", "U+1B55", "U+1B56", "U+1B57", "U+1B58", "U+1B59">>,
       <<"U+1BB0", "U+1BB1", "U+1BB2", "U+1BB3", "U+1BB4", "U+1BB5", "U+1BB6", "U+1BB7", "U+1BB8", "U+1BB9">>,
       <<"U+1C40", "U+1C41", "U+1C42", "U+1C43", "U+1C44", "U+1C45", "U+1C46", "U+1C47", "U+1C48", "U+1C49">>,
       <<"U+1C50", "U+1C51", "U+1C52", "U+1C53", "U+1C54", "U+1C55", "U+1C56", "U+1C57", "U+1C58", "U+1C59">>,
       <<"U+A620", "U+A621", "U+A622", "U+A623", "U+A624", "U+A625", "U+A626", "U+A627", "U+A628", "U+A629">>,
       <<"U+A8D0", "U+A8D1", "U+A8D2", "U+A8D3", "U+A8D4", "U+A8D5", "U+A8D6", "U+A8D7", "U+A8D8", "U+A8D9">>,
       <<"U+A900", "U+A901", "U+A902", "U+A903", "U+A904", "U+A905", "U+A906", "U+A907", "U+A908", "U+A909">>,
       <<"U+A9D0", "U+A9D1", "U+A9D2", "U+A9D3", "U+A9D4", "U+A9D5", "U+A9D6", "U+A9D7", "U+A9D8", "U+A9D9">>,
       <<"U+A9F0", "U+A9F1", "U+A9F2", "U+A9F3", "U+A9F4", "U+A9F5", "U+A9F6", "U+A9F7", "U+A9F8", "U+A9F9">>,
       <<"U+AA50", "U+AA51", "U+AA52", "U+AA53", "U+AA54", "U+AA55", "U+AA56", "U+AA57", "U+AA58", "U+AA59">>,
       <<"U+ABF0", "U+ABF1", "U+ABF2", "U+ABF3", "U+ABF4", "U+ABF5", "U+ABF6", "U+ABF7", "U+ABF8", "U+ABF9">>,
       <<"U+FF10", "U+FF11", "U+FF12", "U+FF13", "U+FF14", "U+FF15", "U+FF16", "U+FF17", "U+FF18", "U+FF19">>,
       <<"U+104A0", "U+104A1", "U+104A2", "U+104A3", "U+104A4", "U+104A5", "U+104A6", "U+104A7", "U+104A8", "U+104A9">>,
       <<"U+10D30", "U+10D31", "U+10D32", "U+10D33", "U+10D34", "U+10D35", "U+10D36", "U+10D37", "U+10D38", "U+10D39">>,
       <<"U+11066", "U+11067", "U+11068", "U+11069", "U+1106A", "U+1106B", "U+1106C", "U+1106D", "U+1106E", "U+1106F">>,
       <<"U+110F0", "U+110F1", "U+110F2", "U+110F3", "U+110F4", "U+110F5", "U+110F6", "U+110F7", "U+110F8", "U+110F9">>,
       <<"U+11136", "U+11137", "U+11138", "U+11139", "U+1113A", "U+1113B", "U+1113C", "U+1113D", "U+1113E", "U+1113F">>,
       <<"U+111D0", "U+111D1", "U+111D2", "U+111D3", "U+111D4", "U+111D5", "U+111D6", "U+111D7", "U+111D8", "U+111D9">>,
       <<"U+112F0", "U+112F1", "U+112F2", "U+112F3", "U+112F4", "U+112F5", "U+112F6", "U+112F7", "U+112F8", "U+112F9">>,
       <<"U+11450", "U+11451", "U+11452", "U+11453", "U+11454", "U+11455", "U+11456", "U+11457", "U+11458", "U+11459">>,
       <<"U+114D0", "U+114D1", "U+114D2", "U+114D3", "U+114D4", "U+114D5", "U+114D6", "U+114D7", "U+114D8", "U+114D9">>,
       <<"U+11650", "U+11651", "U+11652", "U+11653", "U+11654", "U+11655", "U+11656", "U+11657", "U+11658", "U+11659">>,
       <<"U+116C0", "U+116C1", "U+116C2", "U+116C3", "U+116C4", "U+116C5", "U+116C6", "U+116C7", "U+116C8", "U+116C9">>,
       <<"U+11730", "U+11731", "U+11732", "U+11733", "U+11734", "U+11735", "U+11736", "U+11737", "U+11738", "U+11739">>,
       <<"U+118E0", "U+118E1", "U+118E2", "U+118E3", "U+118E4", "U+118E5", "U+118E6", "U+118E7", "U+118E8", "U+118E9">>,
       <<"U+11950", "U+11951", "U+11952", "U+11953", "U+11954", "U+11955", "U+11956", "U+11957", "U+11958", "U+11959">>,
       <<"U+11C50", "U+11C51", "U+11C52", "U+11C53", "U+11C54", "U+11C55", "U+11C56", "U+11C57", "U+11C58", "U+11C59">>,
       <<"U+11D50", "U+11D51", "U+11D52", "U+11D53", "U+11D54", "U+11D55", "U+11D56", "U+11D57", "U+11D58", "U+11D59">>,
       <<"U+11DA0", "U+11DA1", "U+11DA2", "U+11DA3", "U+11DA4", "U+11DA5", "U+11DA6", "U+11DA7", "U+11DA8", "U+11DA9">>,
       <<"U+16A60", "U+16A61", "U+16A62", "U+16A63", "U+16A64", "U+16A65", "U+16A66", "U+16A67", "U+16A68", "U+16A69">>,
       <<"U+16AC0", "U+16AC1", "U+16AC2", "U+16AC3", "U+16AC4", "U+16AC5", "U+16AC6", "U+16AC7", "U+16AC8", "U+16AC9">>,
       <<"U+16B50", "U+16B51", "U+16B52", "U+16B53", "U+16B54", "U+16B55", "U+16B56", "U+16B57", "U+16B58", "U+16B59">>,
       <<"U+1D7CE", "U+1D7CF", "U+1D7D0", "U+1D7D1", "U+1D7D2", "U+1D7D3", "U+1D7D4", "U+1D7D5", "U+1D7D6", "U+1D7D7">>,
       <<"U+1D7D8", "U+1D7D9", "U+1D7DA", "U+1D7DB", "U+1D7DC", "U+1D7DD", "U+1D7DE", "U+1D7DF", "U+1D7E0", "U+1D7E1">>,
       <<"U+1D7E2", "U+1D7E3", "U+1D7E4", "U+1D7E5", "U+1D7E6", "U+1D7E7", "U+1D7E8", "U+1D7E9", "U+1D7EA", "U+1D7EB">>,
       <<"U+1D7EC", "U+1D7ED", "U+1D7EE", "U+1D7EF", "U+1D7F0", "U+1D7F1", "U+1D7F2", "U+1D7F3", "U+1D7F4", "U+1D7F5">>,
       <<"U+1D7F6", "U+1D7F7", "U+1D7F8", "U+1D7F9", "U+1D7FA", "U+1D7FB", "U+1D7FC", "U+1D7FD", "U+1D7FE", "U+1D7FF">>,
       <<"U+1E140", "U+1E141", "U+1E142", "U+1E143", "U+1E144", "U+1E145", "U+1E146", "U+1E147", "U+1E148", "U+1E149">>,
       <<"U+1E2F0", "U+1E2F1", "U+1E2F2", "U+1E2F3", "U+1E2F4", "U+1E2F5", "U+1E2F6", "U+1E2F7", "U+1E2F8", "U+1E2F9">>,
       <<"U+1E950", "U+1E951", "U+1E952", "U+1E953", "U+1E954", "U+1E955", "U+1E956", "U+1E957", "U+1E958", "U+1E959">>,
       <<"U+1FBF0", "U+1FBF1", "U+1FBF2", "U+1FBF3", "U+1FBF4", "U+1FBF5", "U+1FBF6", "U+1FBF7", "U+1FBF8", "U+1FBF9">> >>

DecimalChars == UNION {{Decimals[r][d] : d \in 1..10} : r \in 1..Len(Decimals)}

\* the value of a decimal digit
DecimalVal(c) == (CHOOSE d \in 1..10 : \E r \in 1..Len(Decimals) : Decimals[r][d] = c) - 1

\* sys.get_int_max_str_digits(): int() raises ValueError on a string with more digits
MaxStrDigits == 4300

RECURSIVE LStrip(_, _)
\* s.lstrip() with the characters of S
LStrip(s, S) == IF Len(s) > 0 /\ Head(s) \in S THEN LStrip(Tail(s), S) ELSE s

RECURSIVE RStrip(_, _)
\* s.rstrip() with the characters of S
RStrip(s, S) ==
    IF Len(s) > 0 /\ s[Len(s)] \in S THEN RStrip(SubSeq(s, 1, Len(s) - 1), S) ELSE s

\* s.strip()
Strip(s) == RStrip(LStrip(s, Whitespace), Whitespace)

\* the argument of int() without the surrounding whitespace
IntTrim(s) == RStrip(LStrip(s, IntSpace), IntSpace)

\* the argument of int() has a sign
IntSigned(s) == Len(IntTrim(s)) > 0 /\ IntTrim(s)[1] \in {"+", "-"}

\* the digits part of the argument of int(): after the whitespace and the optional sign
IntBody(s) == IF IntSigned(s) THEN Tail(IntTrim(s)) ELSE IntTrim(s)

\* int(s) succeeds: optional whitespace, an optional sign, then decimal digits with single
\* underscores allowed between digits, at most MaxStrDigits digits (leading zeros counted)
IsInt(s) ==
    LET b == IntBody(s)
    IN  /\ Len(b) > 0
        /\ \A k \in 1..Len(b) : b[k] \in DecimalChars \cup {"_"}
        /\ b[1] \in DecimalChars
        /\ b[Len(b)] \in DecimalChars
        /\ \A k \in 1..(Len(b) - 1) : ~(b[k] = "_" /\ b[k + 1] = "_")
        /\ Cardinality({k \in 1..Len(b) : b[k] \in DecimalChars}) <= MaxStrDigits

RECURSIVE DigitsToInt(_)
\* the value of a digits part, underscores skipped
DigitsToInt(b) ==
    IF Len(b) = 0 THEN 0
    ELSE IF b[Len(b)] = "_" THEN DigitsToInt(SubSeq(b, 1, Len(b) - 1))
    ELSE 10 * DigitsToInt(SubSeq(b, 1, Len(b) - 1)) + DecimalVal(b[Len(b)])

\* int(s) for an s on which it succeeds (the lines of the model keep it within TLC's integers)
StrToInt(s) ==
    IF IntSigned(s) /\ IntTrim(s)[1] = "-" THEN 0 - DigitsToInt(IntBody(s))
    ELSE DigitsToInt(IntBody(s))

RECURSIVE IntToStr(_)
\* str(n), f"{n}" for n >= 0
IntToStr(n) ==
    IF n < 10 THEN <<DigitChars[n + 1]>>
    ELSE IntToStr(n \div 10) \o <<DigitChars[(n % 10) + 1]>>

(***************************************************************************)
(* d1.py : decode_line                                                     *)
(***************************************************************************)
word_numbers ==
    << <<"o", "n", "e">>, <<"t", "w", "o">>, <<"t", "h", "r", "e", "e">>,
       <<"f", "o", "u", "r">>, <<"f", "i", "v", "e">>, <<"s", "i", "x">>,
       <<"s", "e", "v", "e", "n">>, <<"e", "i", "g", "h", "t">>, <<"n", "i", "n", "e">> >>

\* left_word = line[i:i+len(word_number)]
left_word(ln, idx, word_number) == Slice(ln, idx, idx + Len(word_number))

\* a right_word that drops the i == 0 special case: line[-(0+len+1):-0] is empty
right_word_no_i0(ln, idx, word_number) ==
    Slice(ln, -(idx + Len(word_number) + 1), -idx)

\* right_word: line[-len(word_number):] at i == 0, else line[-(i+len(word_number)+1):-i]
right_word(ln, idx, word_number) ==
    IF idx = 0 THEN Slice(ln, -Len(word_number), Len(ln))
    ELSE Slice(ln, -(idx + Len(word_number) + 1), -idx)

\* the index read by left_cursor = line[i]
left_index(idx) == idx

\* a right index that is off by one: line[-(i+2)]
right_index_off(idx) == -(idx + 2)

\* the index read by right_cursor = line[-(i+1)]
right_index(idx) == -(idx + 1)

\* left_cursor = line[i]
left_cursor(ln, idx) == Index(ln, left_index(idx))

\* a right cursor that reads the same character as the left cursor
right_cursor_left(ln, idx) == Index(ln, left_index(idx))

\* right_cursor = line[-(i+1)]
right_cursor(ln, idx) == Index(ln, right_index(idx))

RECURSIVE WordLoop(_, _, _, _, _)
\* for number, word_number in enumerate(word_numbers): ... break   (number = 0..8)
\* returns <<first_num, last_num>>
WordLoop(ln, idx, number, first, last) ==
    IF number >= Len(word_numbers) THEN <<first, last>>
    ELSE
        LET word_number == word_numbers[number + 1]
            f == IF first = None /\ Contains(word_number, left_word(ln, idx, word_number))
                 THEN number + 1 ELSE first
            l == IF last = None /\ Contains(word_number, right_word(ln, idx, word_number))
                 THEN number + 1 ELSE last
        IN  IF f # None /\ l # None THEN <<f, l>>
            ELSE WordLoop(ln, idx, number + 1, f, l)

\* the digit checks of one iteration of the scan loop; returns <<first_num, last_num>>
DigitCheck(ln, idx, first, last) ==
    << IF first = None /\ left_cursor(ln, idx) \in numbers
       THEN DigitVal(left_cursor(ln, idx)) ELSE first,
       IF last = None /\ right_cursor(ln, idx) \in numbers
       THEN DigitVal(right_cursor(ln, idx)) ELSE last >>

\* one iteration of `for i in range(len(line))`, up to the break test
ScanBody(ln, wc, idx, first, last) ==
    LET d == DigitCheck(ln, idx, first, last)
    IN  IF wc THEN WordLoop(ln, idx, 0, d[1], d[2]) ELSE d

\* the result composition after the loop
Compose(first, last) ==
    IF first = None /\ last = None THEN None
    ELSE IF first = None THEN StrToInt(IntToStr(last) \o IntToStr(last))
    ELSE IF last = None THEN StrToInt(IntToStr(first) \o IntToStr(first))
    ELSE StrToInt(IntToStr(first) \o IntToStr(last))

RECURSIVE ScanLoop(_, _, _, _, _)
\* the whole scan loop from iteration idx on; returns <<first_num, last_num>>
ScanLoop(ln, wc, idx, first, last) ==
    IF idx >= Len(ln) THEN <<first, last>>
    ELSE LET r == ScanBody(ln, wc, idx, first, last)
         IN  IF r[1] # None /\ r[2] # None THEN r
             ELSE ScanLoop(ln, wc, idx + 1, r[1], r[2])

\* decode_line(line, word_correction) as a function of its arguments
decode_line(ln, wc) ==
    LET r == ScanLoop(ln, wc, 0, None, None) IN Compose(r[1], r[2])

(***************************************************************************)
(* d2.py : DiceGroup                                                       *)
(***************************************************************************)
\* DiceGroup(num_blue, num_green, num_red)
DiceGroup(b, g, r) == [num_blue |-> b, num_green |-> g, num_red |-> r]

\* __eq__
DiceGroup_eq(self, other) ==
    (self.num_blue = other.num_blue) /\ (self.num_green = other.num_green) /\
    (self.num_red = other.num_red)

\* a __gt__ that requires every colour to be greater
DiceGroup_gt_all(self, other) ==
    (self.num_blue > other.num_blue) /\ (self.num_green > other.num_green) /\
    (self.num_red > other.num_red)

\* a __gt__ that forgets the red dice
DiceGroup_gt_no_red(self, other) ==
    (self.num_blue > other.num_blue) \/ (self.num_green > other.num_green)

\* __gt__
DiceGroup_gt(self, other) ==
    (self.num_blue > other.num_blue) \/ (self.num_green > other.num_green) \/
    (self.num_red > other.num_red)

\* __lt__
DiceGroup_lt(self, other) ==
    (self.num_blue < other.num_blue) \/ (self.num_green < other.num_green) \/
    (self.num_red < other.num_red)

\* __ge__
DiceGroup_ge(self, other) == DiceGroup_gt(self, other) \/ DiceGroup_eq(self, other)

\* __le__
DiceGroup_le(self, other) == DiceGroup_lt(self, other) \/ DiceGroup_eq(self, other)

\* power()
power(self) == self.num_red * self.num_blue * self.num_green

\* the dice groups of the model: every count in 0..MaxCount
Counts == 0..MaxCount
DiceGroups == {DiceGroup(b, g, r) : b \in Counts, g \in Counts, r \in Counts}

\* the groups of the doctests of DiceGroup, max_dice_group and validate_game
DoctestGroups ==
    { DiceGroup(10, 20, 30), DiceGroup(2, 2, 3), DiceGroup(10, 1, 2), DiceGroup(5, 3, 4),
      DiceGroup(14, 13, 12), DiceGroup(6, 8, 20) }

NoCmp == [a |-> DiceGroup(0, 0, 0), b |-> DiceGroup(0, 0, 0), done |-> FALSE,
          gt |-> FALSE, lt |-> FALSE, ge |-> FALSE, le |-> FALSE, eq |-> FALSE,
          rgt |-> FALSE]

\* no comparison has been evaluated
OrderIdle == cmp = NoCmp

\* validate_game is not running
ValidateIdle ==
    /\ game = <<>>
    /\ bag = DiceGroup(0, 0, 0)
    /\ vi = 0
    /\ vpc = "idle"
    /\ vres = FALSE

\* max_dice_group is not running
MaxIdle ==
    /\ groups = <<>>
    /\ mi = 0
    /\ counts = [red |-> 0, green |-> 0, blue |-> 0]
    /\ mpc = "idle"
    /\ mres = DiceGroup(0, 0, 0)

\* no line of a games file is being processed
GameIdle ==
    /\ game_string = <<>>
    /\ written_number = 0
    /\ written = <<>>
    /\ from_format = FALSE
    /\ gbag = DiceGroup(0, 0, 0)
    /\ gpc = "idle"
    /\ game_number = <<>>
    /\ started = FALSE
    /\ segs = <<>>
    /\ yielded = <<>>
    /\ valid_game = FALSE
    /\ gerr = "none"
    /\ line_power = <<>>

D2Idle == OrderIdle /\ ValidateIdle /\ MaxIdle /\ GameIdle

(***************************************************************************)
(* Inputs of decode_line                                                   *)
(***************************************************************************)
Alphabet == {"o", "n", "e", "t", "w", "7", "0"}

RECURSIVE SeqsUpTo(_, _)
\* all sequences over S of length <= n
SeqsUpTo(S, n) ==
    IF n = 0 THEN {<<>>}
    ELSE LET shorter == SeqsUpTo(S, n - 1)
         IN  shorter \cup {Append(s, c) : s \in {t \in shorter : Len(t) = n - 1}, c \in S}

\* the doctest lines of decode_line
DoctestLines ==
    { <<"1", "a", "b", "c", "2">>,
      <<"p", "q", "r", "3", "s", "t", "u", "8", "v", "w", "x">>,
      <<"a", "1", "b", "2", "c", "3", "d", "4", "e", "5", "f">>,
      <<"t", "r", "e", "b", "7", "u", "c", "h", "e", "t">>,
      <<"t", "w", "o", "1", "n", "i", "n", "e">>,
      <<"e", "i", "g", "h", "t", "w", "o", "t", "h", "r", "e", "e">>,
      <<"a", "b", "c", "o", "n", "e", "2", "t", "h", "r", "e", "e", "x", "y", "z">>,
      <<"x", "t", "w", "o", "n", "e", "3", "f", "o", "u", "r">>,
      <<"4", "n", "i", "n", "e", "e", "i", "g", "h", "t", "s", "e", "v", "e", "n", "2">>,
      <<"z", "o", "n", "e", "i", "g", "h", "t", "2", "3", "4">>,
      <<"7", "p", "q", "r", "s", "t", "s", "i", "x", "t", "e", "e", "n">>,
      <<"2", "t", "h", "r", "e", "e", "r", "j", "n", "i", "n", "e", "o", "n", "e", "v">> }

\* further lines with overlapping words at either end
OverlapLines ==
    { <<"t", "w", "o", "n", "e">>,
      <<"o", "n", "e", "i", "g", "h", "t">>,
      <<"s", "e", "v", "e", "n", "i", "n", "e", "x">>,
      <<"x", "n", "i", "n", "e", "i", "g", "h", "t", "w", "o", "x">>,
      <<"f", "i", "v", "e", "i", "g", "h", "t", "h", "r", "e", "e">> }

Lines == SeqsUpTo(Alphabet, MaxLen) \cup DoctestLines \cup OverlapLines

(***************************************************************************)
(* decode_line as a state machine: one step per loop iteration             *)
(***************************************************************************)
\* decode_line is not running
DecodeIdle ==
    /\ line = <<>>
    /\ word_correction = FALSE
    /\ i = 0
    /\ first_num = None
    /\ last_num = None
    /\ pc = "idle"
    /\ result = None

\* sum_lines is not running
SumIdle ==
    /\ file = <<>>
    /\ sum_wc = FALSE
    /\ li = 0
    /\ total = 0
    /\ printed = <<>>
    /\ spc = "idle"

DecodeInit ==
    /\ SumIdle /\ D2Idle
    /\ line \in Lines
    /\ word_correction \in BOOLEAN
    /\ i = 0
    /\ first_num = None
    /\ last_num = None
    /\ pc = "scan"
    /\ result = None

\* one iteration of the scan loop, including its break
ScanStep ==
    /\ pc = "scan"
    /\ i < Len(line)
    /\ IF ~(InRange(line, left_index(i)) /\ InRange(line, right_index(i)))
       THEN /\ pc' = "raised"
            /\ UNCHANGED <<first_num, last_num, i>>
       ELSE LET r == ScanBody(line, word_correction, i, first_num, last_num)
            IN  /\ first_num' = r[1]
                /\ last_num' = r[2]
                /\ IF r[1] # None /\ r[2] # None
                   THEN pc' = "return" /\ i' = i
                   ELSE pc' = "scan" /\ i' = i + 1
    /\ UNCHANGED <<line, word_correction, result, sumvars, d2vars>>

\* range(len(line)) is exhausted
ScanExhausted ==
    /\ pc = "scan"
    /\ i >= Len(line)
    /\ pc' = "return"
    /\ UNCHANGED <<line, word_correction, i, first_num, last_num, result, sumvars, d2vars>>

\* the if/elif chain after the loop
Return ==
    /\ pc = "return"
    /\ result' = Compose(first_num, last_num)
    /\ pc' = "done"
    /\ UNCHANGED <<line, word_correction, i, first_num, last_num, sumvars, d2vars>>

DecodeNext == ScanStep \/ ScanExhausted \/ Return

SpecDecode == DecodeInit /\ [][DecodeNext]_vars

(***************************************************************************)
(* d1.py : sum_lines                                                       *)
(***************************************************************************)
\* a total that is overwritten instead of accumulated
AddTotalAssign(t, decoded_line) == decoded_line

\* total += decoded_line, for an int decoded_line
AddTotal(t, decoded_line) == t + decoded_line

\* total += decoded_line raises TypeError (int + None)
AddRaises(decoded_line) == decoded_line = None

\* lines as the file iterator yields them: no carriage return (open() translates newlines), each
\* ends with its newline, the last line of a file may lack it
RawLines ==
    { <<"1", "2", "\n">>,
      <<" ", "7", "x", " ", "\n">>,
      <<"\n">>,
      <<" ", "\t", "\n">>,
      <<"t", "w", "o", "1", "\n">>,
      <<"o", "n", "e", "U+2003", "", "\n">>,
      <<"U+3000", "U+0667", "1", "\n">>,
      <<"x", " ", "0", "9", "\n">>,
      <<"\f", "7", "", "\n">>,
      <<" ", "7", "x", "", "\n">>,
      <<"t", "w", "o", "n", "e">> }

SumInit ==
    /\ DecodeIdle /\ D2Idle
    /\ file \in {f \in SeqsUpTo(RawLines, MaxLines) :
                    \A k \in 1..(Len(f) - 1) : f[k][Len(f[k])] = "\n"}
    /\ sum_wc \in BOOLEAN
    /\ li = 0
    /\ total = 0
    /\ printed = <<>>
    /\ spc = "loop"

\* one iteration of `for line in open(in_path)`: strip, decode, print, add
SumStep ==
    /\ spc = "loop"
    /\ li < Len(file)
    /\ LET stripped == Strip(file[li + 1])
           decoded_line == decode_line(stripped, sum_wc)
       IN  /\ printed' = Append(printed, <<stripped, decoded_line>>)
           /\ li' = li + 1
           /\ IF AddRaises(decoded_line)
              THEN spc' = "raised" /\ total' = total
              ELSE spc' = "loop" /\ total' = AddTotal(total, decoded_line)
    /\ UNCHANGED <<file, sum_wc, d1vars, d2vars>>

\* return total
SumReturn ==
    /\ spc = "loop"
    /\ li >= Len(file)
    /\ spc' = "returned"
    /\ UNCHANGED <<file, sum_wc, li, total, printed, d1vars, d2vars>>

SumNext == SumStep \/ SumReturn

SpecSum == SumInit /\ [][SumNext]_vars

(***************************************************************************)
(* The comparison operators of DiceGroup, evaluated on a pair              *)
(***************************************************************************)
OrderInit == DecodeIdle /\ SumIdle /\ D2Idle

\* evaluates a > b, a < b, a >= b, a <= b, a == b and b > a
Compare ==
    /\ ~cmp.done
    /\ \E a \in DiceGroups \cup DoctestGroups, b \in DiceGroups \cup DoctestGroups :
           cmp' = [a |-> a, b |-> b, done |-> TRUE,
                   gt |-> DiceGroup_gt(a, b), lt |-> DiceGroup_lt(a, b),
                   ge |-> DiceGroup_ge(a, b), le |-> DiceGroup_le(a, b),
                   eq |-> DiceGroup_eq(a, b), rgt |-> DiceGroup_gt(b, a)]
    /\ UNCHANGED <<d1vars, sumvars, valvars, maxvars, gamevars>>

OrderNext == Compare

SpecOrder == OrderInit /\ [][OrderNext]_vars

(***************************************************************************)
(* d2.py : validate_game                                                   *)
(***************************************************************************)
\* the test `if group > bag` of validate_game
Exceeds(group, b) == DiceGroup_gt(group, b)

RECURSIVE validate_game(_, _)
\* validate_game(game, bag) as a function of its arguments
validate_game(gm, b) ==
    IF Len(gm) = 0 THEN TRUE
    ELSE IF Exceeds(Head(gm), b) THEN FALSE
    ELSE validate_game(Tail(gm), b)

\* the games of the doctest of validate_game
DoctestGames ==
    { <<DiceGroup(3, 0, 4), DiceGroup(6, 2, 1), DiceGroup(0, 2, 0)>>,
      <<DiceGroup(6, 8, 20), DiceGroup(5, 13, 4), DiceGroup(0, 5, 1)>> }

ValidateInit ==
    /\ DecodeIdle /\ SumIdle /\ OrderIdle /\ MaxIdle /\ GameIdle
    /\ \/ game \in SeqsUpTo(DiceGroups, MaxGroups) /\ bag \in DiceGroups
       \/ game \in DoctestGames /\ bag = DiceGroup(14, 13, 12)
    /\ vi = 0
    /\ vpc = "loop"
    /\ vres = FALSE

\* one iteration of `for group in game`
ValidateStep ==
    /\ vpc = "loop"
    /\ vi < Len(game)
    /\ vi' = vi + 1
    /\ IF Exceeds(game[vi + 1], bag)
       THEN vpc' = "done" /\ vres' = FALSE
       ELSE vpc' = "loop" /\ vres' = vres
    /\ UNCHANGED <<game, bag, d1vars, sumvars, ordvars, maxvars, gamevars>>

\* the loop is exhausted: return True
ValidateReturn ==
    /\ vpc = "loop"
    /\ vi >= Len(game)
    /\ vpc' = "done"
    /\ vres' = TRUE
    /\ UNCHANGED <<game, bag, vi, d1vars, sumvars, ordvars, maxvars, gamevars>>

ValidateNext == ValidateStep \/ ValidateReturn

SpecValidate == ValidateInit /\ [][ValidateNext]_vars

(***************************************************************************)
(* d2.py : max_dice_group                                                  *)
(***************************************************************************)
\* a loop body that keeps the last group's counts instead of the maximum
MaxBodyLast(c, group) ==
    [red |-> group.num_red, green |-> group.num_green, blue |-> group.num_blue]

\* the loop body: counts[colour] = max(counts[colour], group.num_colour)
MaxBody(c, group) ==
    [red |-> Max2(c.red, group.num_red),
     green |-> Max2(c.green, group.num_green),
     blue |-> Max2(c.blue, group.num_blue)]

RECURSIVE MaxLoop(_, _)
MaxLoop(c, gs) == IF Len(gs) = 0 THEN c ELSE MaxLoop(MaxBody(c, Head(gs)), Tail(gs))

\* max_dice_group(groups) as a function of its argument
max_dice_group(gs) ==
    LET c == MaxLoop([red |-> 0, green |-> 0, blue |-> 0], gs)
    IN  DiceGroup(c.blue, c.green, c.red)

MaxInit ==
    /\ DecodeIdle /\ SumIdle /\ OrderIdle /\ ValidateIdle /\ GameIdle
    /\ groups \in SeqsUpTo(DiceGroups, MaxGroups) \cup
                  {<<DiceGroup(10, 1, 2), DiceGroup(5, 3, 4)>>}
    /\ mi = 0
    /\ counts = [red |-> 0, green |-> 0, blue |-> 0]
    /\ mpc = "loop"
    /\ mres = DiceGroup(0, 0, 0)

\* one iteration of `for group in groups`
MaxStep ==
    /\ mpc = "loop"
    /\ mi < Len(groups)
    /\ counts' = MaxBody(counts, groups[mi + 1])
    /\ mi' = mi + 1
    /\ UNCHANGED <<groups, mpc, mres, d1vars, sumvars, ordvars, valvars, gamevars>>

\* return DiceGroup(counts['blue'], counts['green'], counts['red'])
MaxReturn ==
    /\ mpc = "loop"
    /\ mi >= Len(groups)
    /\ mres' = DiceGroup(counts.blue, counts.green, counts.red)
    /\ mpc' = "done"
    /\ UNCHANGED <<groups, mi, counts, d1vars, sumvars, ordvars, valvars, gamevars>>

MaxNext == MaxStep \/ MaxReturn

SpecMax == MaxInit /\ [][MaxNext]_vars

(***************************************************************************)
(* d2.py : parse_game_string, get_game_number                              *)
(***************************************************************************)
\* index of the first occurrence of the character sep in s, 0 if there is none
Find(s, sep) ==
    IF \E k \in 1..Len(s) : s[k] = sep
    THEN CHOOSE k \in 1..Len(s) : s[k] = sep /\ \A j \in 1..(k - 1) : s[j] # sep
    ELSE 0

RECURSIVE Split(_, _)
\* s.split(sep) for a one-character separator
Split(s, sep) ==
    IF Find(s, sep) = 0 THEN <<s>>
    ELSE <<SubSeq(s, 1, Find(s, sep) - 1)>> \o Split(SubSeq(s, Find(s, sep) + 1, Len(s)), sep)

Blue == <<"b", "l", "u", "e">>
Green == <<"g", "r", "e", "e", "n">>
Red == <<"r", "e", "d">>

\* the keys of the counts dict of parse_game_string, in insertion order
ColourNames == <<Blue, Green, Red>>

\* `if colour in collection`
MatchesColour(colour, collection) == Contains(colour, collection)

\* collection.strip().split(' ')[0]
CountText(collection) == Split(Strip(collection), " ")[1]

RECURSIVE ColourLoop(_, _, _)
\* `for colour in counts: if colour in collection: counts[colour] = int(...); break`
\* c is <<blue, green, red>>; returns [ok, counts], ok FALSE when int() raises ValueError
ColourLoop(c, collection, k) ==
    IF k > Len(ColourNames) THEN [ok |-> TRUE, counts |-> c]
    ELSE IF MatchesColour(ColourNames[k], collection)
         THEN IF IsInt(CountText(collection))
              THEN [ok |-> TRUE, counts |-> [c EXCEPT ![k] = StrToInt(CountText(collection))]]
              ELSE [ok |-> FALSE, counts |-> c]
         ELSE ColourLoop(c, collection, k + 1)

RECURSIVE CollectionLoop(_, _)
\* `for collection in game.strip().split(',')`
CollectionLoop(c, collections) ==
    IF Len(collections) = 0 THEN [ok |-> TRUE, counts |-> c]
    ELSE LET r == ColourLoop(c, Head(collections), 1)
         IN  IF r.ok THEN CollectionLoop(r.counts, Tail(collections)) ELSE r

\* the body of the generator's loop for one segment: [ok, group]
ParseDraw(seg) ==
    LET r == CollectionLoop(<<0, 0, 0>>, Split(Strip(seg), ","))
    IN  [ok |-> r.ok, group |-> DiceGroup(r.counts[1], r.counts[2], r.counts[3])]

\* game_string.split(":")[1] raises IndexError
NoColon(s) == Len(Split(s, ":")) < 2

\* game_string.split(":")[1].strip().split(";")
Segments(s) == Split(Strip(Split(s, ":")[2]), ";")

RECURSIVE ParseAll(_)
\* the groups yielded for a list of segments, up to the first that raises: [ok, groups]
ParseAll(sgs) ==
    IF Len(sgs) = 0 THEN [ok |-> TRUE, groups |-> <<>>]
    ELSE LET d == ParseDraw(Head(sgs))
         IN  IF ~d.ok THEN [ok |-> FALSE, groups |-> <<>>]
             ELSE LET rest == ParseAll(Tail(sgs))
                  IN  [ok |-> rest.ok, groups |-> <<d.group>> \o rest.groups]

\* parse_game_string(game_string) consumed to its end: [ok, groups]
parse_game_string(s) ==
    IF NoColon(s) THEN [ok |-> FALSE, groups |-> <<>>] ELSE ParseAll(Segments(s))

\* get_game_number(game_str) = int(game_str.split(':')[0].split(" ")[1]): [ok, err, number],
\* number being meaningful only when ok
get_game_number(s) ==
    LET toks == Split(Split(s, ":")[1], " ")
    IN  IF Len(toks) < 2 THEN [ok |-> FALSE, err |-> "IndexError", number |-> 0]
        ELSE IF ~IsInt(toks[2]) THEN [ok |-> FALSE, err |-> "ValueError", number |-> 0]
        ELSE [ok |-> TRUE, err |-> "none", number |-> StrToInt(toks[2])]

(***************************************************************************)
(* Lines of a games file                                                   *)
(***************************************************************************)
Yellow == <<"y", "e", "l", "l", "o", "w">>
DarkRed == <<"d", "a", "r", "k", "r", "e", "d">>

\* "<count> <colour>" as written in a draw
Tok(n, word) == [text |-> IntToStr(n), word |-> word]
TokText(t) == t.text \o <<" ">> \o t.word

RECURSIVE Join(_, _)
\* sep.join(parts)
Join(parts, sep) ==
    IF Len(parts) = 0 THEN <<>>
    ELSE IF Len(parts) = 1 THEN parts[1]
    ELSE parts[1] \o sep \o Join(Tail(parts), sep)

\* "<count> <colour>[, <count> <colour>]*"
DrawText(d) == Join([k \in 1..Len(d) |-> TokText(d[k])], <<",", " ">>)

\* "Game <N>: <draw>[; <draw>]*" followed by the newline the file iterator leaves on the line
GameLine(n, ds) ==
    <<"G", "a", "m", "e", " ">> \o IntToStr(n) \o <<":", " ">> \o
    Join([k \in 1..Len(ds) |-> DrawText(ds[k])], <<";", " ">>) \o <<"\n">>

\* draws in the order of the doctests: green and blue absent or written once, red written once
PlainDraws ==
    {g \o r \o b : g \in {<<>>, <<Tok(0, Green)>>},
                   r \in {<<Tok(4, Red)>>, <<Tok(13, Red)>>},
                   b \in {<<>>, <<Tok(6, Blue)>>}}

\* another colour order, unknown colour words, a word containing a colour name, a colour twice
SpecialDraws ==
    { <<Tok(6, Blue), Tok(13, Red), Tok(0, Green)>>,
      <<Tok(5, Yellow)>>,
      <<Tok(4, Red), Tok(5, Yellow)>>,
      <<Tok(5, DarkRed)>>,
      <<Tok(1, Red), Tok(2, Red)>> }

DrawSet == PlainDraws \cup SpecialDraws

\* c * n
Repeat(c, n) == [k \in 1..n |-> c]

\* a game of one draw whose count has one digit more than int() takes
LongGames == { << <<[text |-> Repeat("1", MaxStrDigits + 1), word |-> Red]>> >> }

RECURSIVE SeqsFromTo(_, _, _)
\* all sequences over S of length lo..hi
SeqsFromTo(S, lo, hi) == {q \in SeqsUpTo(S, hi) : Len(q) >= lo}

GameNumbers == {1, 100}

\* lines that do not have the format, or whose numbers int() treats specially
MalformedLines ==
    { <<"G", "a", "m", "e", " ">> \o Repeat("1", MaxStrDigits + 1) \o
        <<":", " ", "1", " ", "r", "e", "d", "\n">>,
      <<"G", "a", "m", "e", " ", "7", " ", ":", " ", "", "2", " ", "r", "e", "d", " ", "\n">>,
      <<"F", "o", "o", " ", "7", ":", " ", "1", " ", "r", "e", "d", "\n">>,
      <<"G", "a", "m", "e", " ", "5", " ", "1", " ", "g", "r", "e", "e", "n", "\n">>,
      <<"1", " ", "g", "r", "e", "e", "n", ",", " ", "7", " ", "r", "e", "d", "\n">>,
      <<"G", "a", "m", "e", ":", " ", "1", " ", "r", "e", "d", "\n">>,
      <<"G", "a", "m", "e", " ", "x", ":", " ", "1", " ", "r", "e", "d", "\n">>,
      <<"G", "a", "m", "e", " ", "7", " ", "b", ":", " ", "2", " ", "r", "e", "d", "\n">>,
      <<"G", "a", "m", "e", " ", " ", "3", ":", " ", "1", " ", "r", "e", "d", "\n">>,
      <<"G", "a", "m", "e", " ", "3", ":", " ", "r", "e", "d", "\n">>,
      <<"G", "a", "m", "e", " ", "3", ":", " ", "2", "0", " ", "r", "e", "d", ";", " ", "x", " ",
        "b", "l", "u", "e", "\n">>,
      <<"G", "a", "m", "e", " ", "+", "7", ":", " ", "1", " ", "r", "e", "d", "\n">>,
      <<"G", "a", "m", "e", " ", "-", "7", ":", " ", "1", " ", "r", "e", "d", "\n">>,
      <<"G", "a", "m", "e", " ", "1", "_", "0", ":", " ", "1", " ", "r", "e", "d", "\n">>,
      <<"G", "a", "m", "e", " ", "7", "\t", ":", " ", "1", " ", "r", "e", "d", "\n">>,
      <<"G", "a", "m", "e", " ", "1", "_", ":", " ", "1", " ", "r", "e", "d", "\n">>,
      <<"G", "a", "m", "e", " ", "2", ":", " ", "-", "3", " ", "r", "e", "d", ",", " ",
        "+", "1", "_", "0", " ", "b", "l", "u", "e", ";", "", "2", "\f", " ", "g", "r", "e", "e", "n", "\f", "\n">>,
      <<"G", "a", "m", "e", " ", "1", ":", " ", "U+07C0", " ", "r", "e", "d", ";", " ", "2", "0", " ", "r", "e", "d", "\n">>,
      <<"G", "a", "m", "e", " ", "U+0667", ":", " ", "U+2003", "U+FF13", " ", "b", "l", "u", "e", "U+3000", "\n">>,
      <<"G", "a", "m", "e", " ", "2", ":", " ", "1", "U+2003", " ", "r", "e", "d", ",", " ", "2", "", " ", "b", "l", "u", "e", "\n">>,
      <<"\n">> }

\* the bags: the defaults of the command line, and a smaller one
GameBags == {DiceGroup(14, 13, 12), DiceGroup(6, 0, 4)}

(***************************************************************************)
(* d2.py : validate_games_file and total_power_games_file on one line      *)
(***************************************************************************)
GameInit ==
    /\ DecodeIdle /\ SumIdle /\ OrderIdle /\ ValidateIdle /\ MaxIdle
    /\ \/ \E n \in GameNumbers, ds \in SeqsFromTo(DrawSet, 1, MaxDraws) \cup LongGames :
              /\ written_number = n
              /\ written = ds
              /\ from_format = TRUE
              /\ game_string = GameLine(n, ds)
       \/ /\ written_number = 0
          /\ written = <<>>
          /\ from_format = FALSE
          /\ game_string \in MalformedLines
    /\ gbag \in GameBags
    /\ gpc = "number"
    /\ game_number = <<>>
    /\ started = FALSE
    /\ segs = <<>>
    /\ yielded = <<>>
    /\ valid_game = FALSE
    /\ gerr = "none"
    /\ line_power = <<>>

\* a validate_game that never returns early
StopsAtNever(group, b) == FALSE

\* `if group > bag: return False`
StopsAt(group, b) == Exceeds(group, b)

\* game_number = get_game_number(game_string), after groups = parse_game_string(game_string)
\* has created the generator without running it
GetGameNumber ==
    /\ gpc = "number"
    /\ LET r == get_game_number(Strip(game_string))
       IN  IF r.ok
           THEN gpc' = "validate" /\ game_number' = <<r.number>> /\ gerr' = gerr
           ELSE gpc' = "raised" /\ game_number' = game_number /\ gerr' = r.err
    /\ UNCHANGED <<game_string, written_number, written, from_format, gbag, started, segs,
                   yielded, valid_game, line_power, d1vars, sumvars, ordvars, valvars, maxvars>>

\* one iteration of validate_game's loop: the generator is resumed (it splits the line when it
\* is resumed for the first time), yields the next group, and the group is compared to the bag
GameValidateStep ==
    /\ gpc = "validate"
    /\ IF ~started /\ NoColon(Strip(game_string))
       THEN /\ gpc' = "raised"
            /\ gerr' = "IndexError"
            /\ UNCHANGED <<started, segs, yielded, valid_game>>
       ELSE LET sg == IF started THEN segs ELSE Segments(Strip(game_string))
                d == ParseDraw(sg[Len(yielded) + 1])
            IN  /\ Len(yielded) < Len(sg)
                /\ started' = TRUE
                /\ segs' = sg
                /\ IF ~d.ok
                   THEN /\ gpc' = "raised"
                        /\ gerr' = "ValueError"
                        /\ UNCHANGED <<yielded, valid_game>>
                   ELSE /\ yielded' = Append(yielded, d.group)
                        /\ gerr' = gerr
                        /\ IF StopsAt(d.group, gbag)
                           THEN gpc' = "yielded" /\ valid_game' = FALSE
                           ELSE gpc' = "validate" /\ valid_game' = valid_game
    /\ UNCHANGED <<game_string, written_number, written, from_format, gbag, game_number,
                   line_power, d1vars, sumvars, ordvars, valvars, maxvars>>

\* the generator is exhausted: validate_game returns True
GameValidateReturn ==
    /\ gpc = "validate"
    /\ started
    /\ Len(yielded) >= Len(segs)
    /\ gpc' = "yielded"
    /\ valid_game' = TRUE
    /\ UNCHANGED <<game_string, written_number, written, from_format, gbag, game_number,
                   started, segs, yielded, gerr, line_power, d1vars, sumvars, ordvars, valvars,
                   maxvars>>

\* total_power_games_file on the same line: a fresh generator, max_dice_group, power
PowerOfLine ==
    /\ gpc = "yielded"
    /\ LET r == parse_game_string(Strip(game_string))
       IN  IF r.ok
           THEN gpc' = "powered" /\ line_power' = <<power(max_dice_group(r.groups))>> /\ gerr' = gerr
           ELSE gpc' = "raised" /\ line_power' = line_power /\ gerr' = "ValueError"
    /\ UNCHANGED <<game_string, written_number, written, from_format, gbag, game_number,
                   started, segs, yielded, valid_game, d1vars, sumvars, ordvars, valvars,
                   maxvars>>

GameNext == GetGameNumber \/ GameValidateStep \/ GameValidateReturn \/ PowerOfLine

SpecGame == GameInit /\ [][GameNext]_vars

(***************************************************************************)
(* Properties of decode_line                                               *)
(***************************************************************************)
\* the tokens of a line: ASCII digits and, with word correction, the words one..nine
TokenSet(ln, wc) ==
    {[start |-> k, end |-> k, val |-> DigitVal(ln[k])] : k \in {j \in 1..Len(ln) : ln[j] \in numbers}}
    \cup
    (IF wc
     THEN UNION {{[start |-> k, end |-> k + Len(word_numbers[n]) - 1, val |-> n] :
                    k \in {j \in 1..(Len(ln) - Len(word_numbers[n]) + 1) :
                             SubSeq(ln, j, j + Len(word_numbers[n]) - 1) = word_numbers[n]}} :
                 n \in 1..Len(word_numbers)}
     ELSE {})

\* value of the token that starts at the smallest index
FirstToken(ln, wc) ==
    (CHOOSE t \in TokenSet(ln, wc) : \A u \in TokenSet(ln, wc) : t.start <= u.start).val

\* value of the token that ends at the largest index
LastToken(ln, wc) ==
    (CHOOSE t \in TokenSet(ln, wc) : \A u \in TokenSet(ln, wc) : t.end >= u.end).val

Eightwothree == <<"e", "i", "g", "h", "t", "w", "o", "t", "h", "r", "e", "e">>
Zoneight234 == <<"z", "o", "n", "e", "i", "g", "h", "t", "2", "3", "4">>
Two1nine == <<"t", "w", "o", "1", "n", "i", "n", "e">>
Treb7uchet == <<"t", "r", "e", "b", "7", "u", "c", "h", "e", "t">>

\* C1: for every line with at least one token decode_line returns 10*first + last, first being
\* the token that starts leftmost and last the token that ends rightmost (digits, and words only
\* under word correction); eightwothree -> 83, zoneight234 -> 14, two1nine -> 29, and
\* treb7uchet -> 77 without word correction.
C1_FirstLast ==
    pc = "done" =>
        /\ TokenSet(line, word_correction) # {} =>
               result = 10 * FirstToken(line, word_correction) + LastToken(line, word_correction)
        /\ (line = Eightwothree /\ word_correction) => result = 83
        /\ (line = Zoneight234 /\ word_correction) => result = 14
        /\ (line = Two1nine /\ word_correction) => result = 29
        /\ (line = Treb7uchet /\ ~word_correction) => result = 77

\* an overlapping-word line has been decoded with both overlapping words counted
C1_Witness ==
    /\ pc = "done"
    /\ line = Eightwothree
    /\ word_correction
    /\ result = 83

\* C2: decode_line never raises; it returns None exactly when the line has no ASCII digit and,
\* under word correction, no word one..nine; "" without word correction gives None; every other
\* line gives an integer.
C2_NoneIffNoToken ==
    /\ pc # "raised"
    /\ pc = "done" =>
        /\ (result = None) <=> (TokenSet(line, word_correction) = {})
        /\ (line = <<>> /\ ~word_correction) => result = None
        /\ result # None => result \in 0..99

\* a non-empty line holding only a word has been decoded to None without word correction
C2_Witness ==
    /\ pc = "done"
    /\ ~word_correction
    /\ Contains(<<"o", "n", "e">>, line)
    /\ TokenSet(line, FALSE) = {}
    /\ result = None

\* C10: when the scan loop has ended first_num and last_num are both set or both unset, and a
\* line with exactly one token d decodes to 11*d.
C10_BothOrNeither ==
    /\ pc \in {"return", "done"} => ((first_num = None) <=> (last_num = None))
    /\ (pc = "done" /\ Cardinality(TokenSet(line, word_correction)) = 1) =>
           result = 11 * FirstToken(line, word_correction)

\* a line with exactly one token (a word at the end of the line) has been decoded
C10_Witness ==
    /\ pc = "done"
    /\ word_correction
    /\ Cardinality(TokenSet(line, word_correction)) = 1
    /\ Len(line) >= 3
    /\ SubSeq(line, Len(line) - 2, Len(line)) = <<"o", "n", "e">>
    /\ result = 11

(***************************************************************************)
(* Properties of sum_lines                                                 *)
(***************************************************************************)
RECURSIVE SumOfDecoded(_, _)
\* the sum of decode_line over the stripped lines, a None line counting 0
SumOfDecoded(f, wc) ==
    IF Len(f) = 0 THEN 0
    ELSE LET d == decode_line(Strip(Head(f)), wc)
         IN  (IF d = None THEN 0 ELSE d) + SumOfDecoded(Tail(f), wc)

\* the lines of f that decode to None
NoneLines(f, wc) == {k \in 1..Len(f) : decode_line(Strip(f[k]), wc) = None}

\* C7: when every line decodes to a number sum_lines returns the sum of decode_line over the
\* stripped lines; when some line decodes to None the line counts 0 or the call fails, and no
\* returned total is computed from a None value.
C7_SumOrFail ==
    /\ spc = "returned" => total = SumOfDecoded(file, sum_wc)
    /\ spc = "raised" => NoneLines(file, sum_wc) # {}
    /\ (spc = "loop" /\ li >= Len(file)) => total = SumOfDecoded(file, sum_wc)
    /\ total >= 0

\* a file whose second line is blank has made the call fail after the first line was added
C7_Witness ==
    /\ spc = "raised"
    /\ Len(file) = 2
    /\ li = 2
    /\ Strip(file[2]) = <<>>
    /\ total = 12

(***************************************************************************)
(* Properties of DiceGroup, validate_game and max_dice_group               *)
(***************************************************************************)
Colours == {"num_blue", "num_green", "num_red"}

\* C3: validate_game(draws, bag) is true iff every colour count of every draw is <= the bag's
\* count of that colour (true for no draws, false as soon as one colour of one draw is larger).
C3_ValidateIffFits ==
    vpc = "done" =>
        (vres <=> (\A k \in 1..Len(game) : \A c \in Colours : game[k][c] <= bag[c]))

\* a game has been rejected because of a single colour of its second draw, the other two
\* colours of that draw being below the bag's
C3_Witness ==
    /\ vpc = "done"
    /\ vres = FALSE
    /\ Len(game) = 2
    /\ \A c \in Colours : game[1][c] <= bag[c]
    /\ game[2].num_red > bag.num_red
    /\ game[2].num_blue < bag.num_blue
    /\ game[2].num_green < bag.num_green

\* the maximum of a colour over the groups, 0 for no groups
MaxOf(gs, c) ==
    CHOOSE n \in {gs[k][c] : k \in 1..Len(gs)} \cup {0} :
        \A k \in 1..Len(gs) : gs[k][c] <= n

\* C4: max_dice_group returns per colour the maximum over all draws ((0,0,0) for no draws); the
\* result validates the draws, and every bag that validates the draws is per colour >= the result.
C4_MaxIsMinimalBag ==
    mpc = "done" =>
        /\ \A c \in Colours : mres[c] = MaxOf(groups, c)
        /\ Len(groups) = 0 => mres = DiceGroup(0, 0, 0)
        /\ validate_game(groups, mres)
        /\ \A b \in DiceGroups \cup DoctestGroups :
               validate_game(groups, b) => \A c \in Colours : b[c] >= mres[c]

\* two draws whose maxima come from different draws have been reduced to their minimal bag
C4_Witness ==
    /\ mpc = "done"
    /\ groups = <<DiceGroup(10, 1, 2), DiceGroup(5, 3, 4)>>
    /\ mres = DiceGroup(10, 3, 4)
    /\ power(mres) = 120

\* C8: a > b holds iff at least one colour count of a is strictly greater than b's (not all
\* three), so a > b and b > a can hold together.
C8_GtIsAnyColour ==
    cmp.done =>
        /\ cmp.gt <=> (\E c \in Colours : cmp.a[c] > cmp.b[c])
        /\ cmp.rgt <=> (\E c \in Colours : cmp.b[c] > cmp.a[c])

\* two groups have been compared that exceed each other on different colours
C8_Witness ==
    /\ cmp.done
    /\ cmp.gt
    /\ cmp.rgt
    /\ cmp.a.num_blue > cmp.b.num_blue
    /\ cmp.b.num_red > cmp.a.num_red

(***************************************************************************)
(* Properties of parse_game_string, get_game_number and validate_games_file*)
(***************************************************************************)
\* the tokens of a draw whose colour word contains the colour name
Naming(d, colour) == {k \in 1..Len(d) : Contains(colour, d[k].word)}

RECURSIVE DecimalValue(_)
\* the number a string of ASCII digits writes
DecimalValue(t) ==
    IF Len(t) = 0 THEN 0
    ELSE 10 * DecimalValue(SubSeq(t, 1, Len(t) - 1)) + DigitVal(t[Len(t)])

\* the number written before a colour name in a draw (the last one if there are several),
\* 0 if the draw does not name the colour
WrittenCount(d, colour) ==
    IF Naming(d, colour) = {} THEN 0
    ELSE DecimalValue(d[CHOOSE k \in Naming(d, colour) : \A j \in Naming(d, colour) : j <= k].text)

\* the dice group a written draw stands for
WrittenGroup(d) ==
    DiceGroup(WrittenCount(d, Blue), WrittenCount(d, Green), WrittenCount(d, Red))

\* a dice group written as a draw, every colour present
GroupDraw(g) == <<Tok(g.num_green, Green), Tok(g.num_red, Red), Tok(g.num_blue, Blue)>>

\* C5: for a line "Game <N>: <draw>[; <draw>]*" parse_game_string yields one DiceGroup per
\* draw, in line order, each colour's count being the number written before that colour name,
\* 0 for an absent colour, tokens naming no known colour contributing nothing; serializing
\* the parsed groups and parsing them back gives the same groups.
C5_ParseMatchesWritten ==
    from_format =>
        /\ gpc # "raised"
        /\ \A k \in 1..Len(yielded) : yielded[k] = WrittenGroup(written[k])
        /\ gpc \in {"yielded", "powered"} =>
               LET parsed == parse_game_string(Strip(game_string))
               IN  /\ parsed.ok
                   /\ parsed.groups = [k \in 1..Len(written) |-> WrittenGroup(written[k])]
                   /\ parse_game_string(Strip(GameLine(written_number,
                          [k \in 1..Len(parsed.groups) |-> GroupDraw(parsed.groups[k])])))
                      = parsed

\* a non-negative decimal integer as the format writes it: decimal digits only
IsDecimal(t) == Len(t) > 0 /\ \A k \in 1..Len(t) : t[k] \in numbers

\* the label before the first colon is "Game <N>"
LabelOK(s) ==
    LET label == SubSeq(s, 1, Find(s, ":") - 1)
    IN  /\ Len(label) >= 6
        /\ SubSeq(label, 1, 5) = <<"G", "a", "m", "e", " ">>
        /\ IsDecimal(SubSeq(label, 6, Len(label)))

\* the line has no colon, or its label is not "Game <N>"
FormatError(s) == Find(s, ":") = 0 \/ ~LabelOK(s)

\* C6: a line with no colon, or whose label is not "Game <N>", is a format error: neither
\* get_game_number nor the per-line processing of validate_games_file returns a game number
\* or a validity result for it.
C6_FormatErrorFails ==
    FormatError(Strip(game_string)) =>
        /\ game_number = <<>>
        /\ gpc \notin {"validate", "yielded", "powered"}

\* the index of the first segment whose group exceeds the bag, 0 if none does
FirstExceeding(sgs, b) ==
    IF \E k \in 1..Len(sgs) : ParseDraw(sgs[k]).ok /\ Exceeds(ParseDraw(sgs[k]).group, b)
    THEN CHOOSE k \in 1..Len(sgs) :
             /\ ParseDraw(sgs[k]).ok /\ Exceeds(ParseDraw(sgs[k]).group, b)
             /\ \A j \in 1..(k - 1) : ~(ParseDraw(sgs[j]).ok /\ Exceeds(ParseDraw(sgs[j]).group, b))
    ELSE 0

\* C9: validate_game consumes the generator's draws in line order and stops at the first draw
\* that exceeds the bag: after it returned false no later draw has been parsed or compared,
\* and it returns true only after every draw has been consumed exactly once.
C9_LazyShortCircuit ==
    gpc \in {"yielded", "powered"} =>
        /\ started
        /\ segs = Segments(Strip(game_string))
        /\ Len(yielded) <= Len(segs)
        /\ \A k \in 1..Len(yielded) : yielded[k] = ParseDraw(segs[k]).group
        /\ valid_game => (FirstExceeding(segs, gbag) = 0 /\ Len(yielded) = Len(segs))
        /\ ~valid_game => (FirstExceeding(segs, gbag) > 0
                           /\ Len(yielded) = FirstExceeding(segs, gbag))

\* validate_game has returned false on the first draw of a line whose second draw cannot be
\* parsed: the second draw was never reached
C9_Witness ==
    /\ gpc = "yielded"
    /\ ~valid_game
    /\ Len(segs) = 2
    /\ Len(yielded) = 1
    /\ ~ParseDraw(segs[2]).ok
    /\ gerr = "none"

====
